---- MODULE Spec2Model ----
(***************************************************************************)
(* The tape utilities of xQula/testYadro: generate.py writes a file of     *)
(* random 32-bit little-endian integers, view.py reads such a file, prints *)
(* a windowed summary and (optionally) whether the tape is sorted.         *)
(*                                                                         *)
(* One file path is in play.  A Generator run (optional) is followed by a  *)
(* Viewer run; both are modelled statement by statement.                   *)
(***************************************************************************)
EXTENDS Integers, Sequences, FiniteSets, TLC

VARIABLES
    disk,     \* the bytes of the file at the path, a sequence over 0..255
    gpc,      \* Generator: position in generate.py main()
    count,    \* Generator: args.count
    gi,       \* Generator: iterations of the for loop already run
    gOpens,   \* Generator: number of open() calls made
    gHeld,    \* Generator: number of file handles currently open
    gexit,    \* Generator: process exit status (-1 while running)
    vpc,      \* Viewer: position in view.py main()
    argv,     \* Viewer: the option strings on the command line
    verify,   \* Viewer: args.verify
    vpos,     \* Viewer: read position of f
    lst,      \* Viewer: the decoded list
    out,      \* Viewer: the lines printed to stdout, in order
    vOpens,   \* Viewer: number of open() calls made
    vHeld,    \* Viewer: number of file handles currently open
    vexit     \* Viewer: process exit status (-1 while running)

gvars == <<gpc, count, gi, gOpens, gHeld, gexit>>
vvars == <<vpc, argv, verify, vpos, lst, out, vOpens, vHeld, vexit>>
vars == <<disk, gpc, count, gi, gOpens, gHeld, gexit,
          vpc, argv, verify, vpos, lst, out, vOpens, vHeld, vexit>>

----------------------------------------------------------------------------
(* Bounds of the model *)

MaxCount == 2      \* largest --count tried
MaxTapeLen == 3    \* longest pre-existing tape over SampleInts
MaxLong == 21      \* longest pre-existing tape 1, 2, ..., n
MaxFlags == 2      \* most option strings on the Viewer's command line

(* Program constants *)

ChunkSize == 4     \* f.read(4), to_bytes(4, ...)
WindowSize == 10   \* lst[:10], lst[-10:]
RandLow == 1       \* random.randint(1, 1000)
RandHigh == 1000

----------------------------------------------------------------------------
(* Helpers *)

Min(a, b) == IF a < b THEN a ELSE b
Max(a, b) == IF a > b THEN a ELSE b

RECURSIVE Pow(_, _)
Pow(b, e) == IF e = 0 THEN 1 ELSE b * Pow(b, e - 1)

SeqsUpTo(S, n) == UNION {[1..k -> S] : k \in 0..n}

Range(s) == {s[i] : i \in 1..Len(s)}

----------------------------------------------------------------------------
(* bytes <-> int *)

\* int.to_bytes(n, 'little'): byte i-1 is bits 8(i-1) .. 8i-1
to_bytes(v, n) == [i \in 1..n |-> (v \div Pow(256, i - 1)) % 256]

RECURSIVE from_bytes_sum(_, _)
from_bytes_sum(chunk, i) ==
    IF i > Len(chunk) THEN 0
    ELSE chunk[i] * Pow(256, i - 1) + from_bytes_sum(chunk, i + 1)

\* int.from_bytes(chunk, 'little'), for a chunk of any length
from_bytes(chunk) == from_bytes_sum(chunk, 1)

----------------------------------------------------------------------------
(* Library functions used by the two programs *)

\* the values random.randint is let to return here (a sample of the integers)
RandSamples == {0, 1, 2, 256, 1000, 1001}

\* random.randrange-like draw that may return b + 1: a faulty variant of randint
randint_open(a, b) == {v \in RandSamples : a <= v /\ v <= b + 1}

\* random.randint(a, b): any integer v with a <= v <= b
randint(a, b) == {v \in RandSamples : a <= v /\ v <= b}

\* len(range(n)): the number of iterations of `for _ in range(n)`
range_len(n) == IF n > 0 THEN n ELSE 0

\* open(path, 'ab') keeps the old content: a faulty variant of open_wb
open_ab(content) == content

\* open(path, 'wb'): the content of the file after the open (truncated)
open_wb(content) == <<>>

\* f.read(n) at position pos: up to n bytes, fewer at the end of the file
read(content, pos, n) == SubSeq(content, pos + 1, Min(pos + n, Len(content)))

RECURSIVE insort(_, _)
\* x put into the ascending list s, after the elements equal to it
insort(x, s) ==
    IF s = <<>> THEN <<x>>
    ELSE IF x < s[1] THEN <<x>> \o s
    ELSE <<s[1]>> \o insort(x, Tail(s))

RECURSIVE sorted_from(_, _)
sorted_from(s, acc) ==
    IF s = <<>> THEN acc ELSE sorted_from(Tail(s), insort(s[1], acc))

RECURSIVE insort_unique(_, _)
insort_unique(x, s) ==
    IF s = <<>> THEN <<x>>
    ELSE IF x < s[1] THEN <<x>> \o s
    ELSE IF x = s[1] THEN s
    ELSE <<s[1]>> \o insort_unique(x, Tail(s))

RECURSIVE sorted_set_from(_, _)
sorted_set_from(s, acc) ==
    IF s = <<>> THEN acc ELSE sorted_set_from(Tail(s), insort_unique(s[1], acc))

\* sorted(set(l)), which drops repeated values: a faulty variant of sorted
sorted_set(l) == sorted_set_from(l, <<>>)

\* sorted(l): the elements of l in ascending order
sorted(l) == sorted_from(l, <<>>)

\* a slice index i of a list of n elements, as list slicing clamps it
slice_index(i, n) == IF i < 0 THEN Max(i + n, 0) ELSE Min(i, n)

\* l[a:b]
slice(l, a, b) == SubSeq(l, slice_index(a, Len(l)) + 1, slice_index(b, Len(l)))

\* l[:w]
head_window(l, w) == slice(l, 0, w)

\* l[-w:] that yields nothing when the list is shorter than w: a faulty variant
\* of tail_window
tail_window_unclamped(l, w) ==
    IF Len(l) < w THEN <<>> ELSE SubSeq(l, Len(l) - w + 1, Len(l))

\* l[-w:]
tail_window(l, w) == slice(l, 0 - w, Len(l))

RECURSIVE join_str(_)
\* ''.join(str(x) + ' ' for x in l)
join_str(l) == IF l = <<>> THEN "" ELSE ToString(l[1]) \o " " \o join_str(Tail(l))

\* the line of view.py's first print, with the two windows and the count it shows
SummaryLine(l) ==
    [kind  |-> "summary",
     first |-> head_window(l, WindowSize),
     last  |-> tail_window(l, WindowSize),
     count |-> Len(l),
     text  |-> "Tape: [ " \o join_str(head_window(l, WindowSize)) \o " ... "
               \o join_str(tail_window(l, WindowSize)) \o "] ("
               \o ToString(Len(l)) \o " values)"]

\* an empty list taken as unsorted: a faulty variant of not_sorted
not_sorted_or_empty(l) == l = <<>> \/ l /= sorted(l)

\* lst != sorted(lst)
not_sorted(l) == l /= sorted(l)

\* the line of view.py's second print
SortedLine(l) ==
    [kind |-> "sorted",
     text |-> "Tape is " \o (IF not_sorted(l) THEN "NOT " ELSE "") \o "sorted."]

RECURSIVE parse_verify_from(_, _)
parse_verify_from(args, value) ==
    IF args = <<>> THEN value
    ELSE parse_verify_from(Tail(args),
                           IF args[1] = "--verify" THEN TRUE
                           ELSE IF args[1] = "--no-verify" THEN FALSE
                           ELSE value)

\* --verify declared with default=False: a faulty variant of parse_verify
parse_verify_default_off(args) == parse_verify_from(args, FALSE)

\* args.verify after parse_args: default True, each option string sets it in turn
parse_verify(args) == parse_verify_from(args, TRUE)

----------------------------------------------------------------------------
(* The files the path may hold before the programs run *)

\* the largest integer the checker computes with, 2^31 - 1 (bytes FF FF FF 7F)
MaxModelInt == (Pow(2, 30) - 1) + Pow(2, 30)

SampleInts == {1, 2, 3}

WideInts == {0, 256, MaxModelInt}

TailBytes == {0, 255}

RECURSIVE EncodeTape(_)
\* the bytes of a tape: each element as ChunkSize little-endian bytes, in order
EncodeTape(s) ==
    IF s = <<>> THEN <<>> ELSE to_bytes(s[1], ChunkSize) \o EncodeTape(Tail(s))

ShortTapes == SeqsUpTo(SampleInts, MaxTapeLen)

LongTapes == {[i \in 1..n |-> i] : n \in (MaxTapeLen + 1)..MaxLong}

WideTapes == {<<a, b>> : a, b \in WideInts}

Tapes == ShortTapes \cup WideTapes \cup LongTapes

\* what may follow the last complete entry: fewer than ChunkSize bytes
Tails == SeqsUpTo(TailBytes, ChunkSize - 1)

\* the bytes of every tape of Tapes
Encoded == [s \in Tapes |-> EncodeTape(s)]

Files == {Encoded[s] \o r : s \in ShortTapes, r \in Tails}
         \cup {Encoded[s] : s \in WideTapes \cup LongTapes}

Counts == (0 - 1)..MaxCount

Flags == {"--verify", "--no-verify"}

ArgLists == SeqsUpTo(Flags, MaxFlags)

----------------------------------------------------------------------------
(* Initial state: no program has started; the path holds any file of Files *)

Init ==
    /\ disk \in Files
    /\ gpc = "idle" /\ count = 0 /\ gi = 0 /\ gOpens = 0 /\ gHeld = 0 /\ gexit = -1
    /\ vpc = "idle" /\ argv = <<>> /\ verify = TRUE /\ vpos = 0 /\ lst = <<>>
    /\ out = <<>> /\ vOpens = 0 /\ vHeld = 0 /\ vexit = -1

GenTerminated == gpc \in {"done", "failed"}
ViewTerminated == vpc \in {"done", "failed"}

----------------------------------------------------------------------------
(* generate.py main() *)

\* lines 6-9: parse_args with a valid integer --count c
GenParse(c) ==
    /\ gpc = "idle" /\ vpc = "idle"
    /\ gpc' = "open"
    /\ count' = c
    /\ UNCHANGED <<disk, gi, gOpens, gHeld, gexit, vvars>>

\* line 11: open(args.output, 'wb') succeeds and truncates the file
GenOpen ==
    /\ gpc = "open"
    /\ disk' = open_wb(disk)
    /\ gOpens' = gOpens + 1
    /\ gHeld' = gHeld + 1
    /\ gi' = 0
    /\ gpc' = "loop"
    /\ UNCHANGED <<count, gexit, vvars>>

\* line 11: open raises OSError (path not writable); the exception ends the process
GenOpenFail ==
    /\ gpc = "open"
    /\ gOpens' = gOpens + 1
    /\ gpc' = "failed"
    /\ gexit' = 1
    /\ UNCHANGED <<disk, count, gi, gHeld, vvars>>

\* lines 12-14: one iteration of the loop writes one random value
GenWrite(r) ==
    /\ gpc = "loop"
    /\ gi < range_len(count)
    /\ r \in randint(RandLow, RandHigh)
    /\ disk' = disk \o to_bytes(r, ChunkSize)
    /\ gi' = gi + 1
    /\ UNCHANGED <<gpc, count, gOpens, gHeld, gexit, vvars>>

\* line 14: f.write raises OSError; the with statement closes f, the process ends
GenWriteFault ==
    /\ gpc = "loop"
    /\ gi < range_len(count)
    /\ gHeld' = gHeld - 1
    /\ gpc' = "failed"
    /\ gexit' = 1
    /\ UNCHANGED <<disk, count, gi, gOpens, vvars>>

\* lines 12, 11: the loop is exhausted, the with statement closes f, main returns
GenClose ==
    /\ gpc = "loop"
    /\ ~(gi < range_len(count))
    /\ gHeld' = gHeld - 1
    /\ gpc' = "done"
    /\ gexit' = 0
    /\ UNCHANGED <<disk, count, gi, gOpens, vvars>>

----------------------------------------------------------------------------
(* view.py main(); it runs on the file as it is once no Generator is running *)

\* lines 5-9: parse_args with the option strings a
ViewParse(a) ==
    /\ vpc = "idle"
    /\ gpc = "idle" \/ GenTerminated
    /\ argv' = a
    /\ verify' = parse_verify(a)
    /\ vpc' = "open"
    /\ UNCHANGED <<disk, gvars, vpos, lst, out, vOpens, vHeld, vexit>>

\* lines 11-12: open(args.filename, 'rb') succeeds; lst = []
ViewOpen ==
    /\ vpc = "open"
    /\ vOpens' = vOpens + 1
    /\ vHeld' = vHeld + 1
    /\ vpos' = 0
    /\ lst' = <<>>
    /\ vpc' = "read"
    /\ UNCHANGED <<disk, gvars, argv, verify, out, vexit>>

\* the error of open caught and main left by return: a faulty variant of ViewOpenFail
ViewOpenFailSilent ==
    /\ vpc = "open"
    /\ vOpens' = vOpens + 1
    /\ vpc' = "failed"
    /\ vexit' = 0
    /\ UNCHANGED <<disk, gvars, argv, verify, vpos, lst, out, vHeld>>

\* line 11: open raises OSError (no such file, no permission); the process ends
ViewOpenFail ==
    /\ vpc = "open"
    /\ vOpens' = vOpens + 1
    /\ vpc' = "failed"
    /\ vexit' = 1
    /\ UNCHANGED <<disk, gvars, argv, verify, vpos, lst, out, vHeld>>

\* the loop body with lst.insert(0, ...) for lst.append(...): a faulty variant of
\* ViewRead
ViewReadPrepend ==
    /\ vpc = "read"
    /\ LET chunk == read(disk, vpos, ChunkSize) IN
        /\ vpos' = vpos + Len(chunk)
        /\ IF chunk = <<>>
           THEN /\ vHeld' = vHeld - 1
                /\ vpc' = "summary"
                /\ lst' = lst
           ELSE /\ lst' = <<from_bytes(chunk)>> \o lst
                /\ UNCHANGED <<vHeld, vpc>>
    /\ UNCHANGED <<disk, gvars, argv, verify, out, vOpens, vexit>>

\* lines 13-17: one iteration of the while loop; on the break the with statement
\* closes f
ViewRead ==
    /\ vpc = "read"
    /\ LET chunk == read(disk, vpos, ChunkSize) IN
        /\ vpos' = vpos + Len(chunk)
        /\ IF chunk = <<>>
           THEN /\ vHeld' = vHeld - 1
                /\ vpc' = "summary"
                /\ lst' = lst
           ELSE /\ lst' = Append(lst, from_bytes(chunk))
                /\ UNCHANGED <<vHeld, vpc>>
    /\ UNCHANGED <<disk, gvars, argv, verify, out, vOpens, vexit>>

\* f opened without a with statement, so an error leaves it open: a faulty variant
\* of ViewReadFault
ViewReadFaultLeak ==
    /\ vpc = "read"
    /\ vpc' = "failed"
    /\ vexit' = 1
    /\ UNCHANGED <<disk, gvars, argv, verify, vpos, lst, out, vOpens, vHeld>>

\* line 14: f.read raises OSError; the with statement closes f, the process ends
ViewReadFault ==
    /\ vpc = "read"
    /\ vHeld' = vHeld - 1
    /\ vpc' = "failed"
    /\ vexit' = 1
    /\ UNCHANGED <<disk, gvars, argv, verify, vpos, lst, out, vOpens>>

\* line 18: print the summary line; without verify main returns
ViewSummary ==
    /\ vpc = "summary"
    /\ out' = Append(out, SummaryLine(lst))
    /\ IF verify
       THEN vpc' = "verify" /\ vexit' = vexit
       ELSE vpc' = "done" /\ vexit' = 0
    /\ UNCHANGED <<disk, gvars, argv, verify, vpos, lst, vOpens, vHeld>>

\* lines 19-20: print the sortedness line; main returns
ViewVerify ==
    /\ vpc = "verify"
    /\ out' = Append(out, SortedLine(lst))
    /\ vpc' = "done"
    /\ vexit' = 0
    /\ UNCHANGED <<disk, gvars, argv, verify, vpos, lst, vOpens, vHeld>>

----------------------------------------------------------------------------
(* Specifications *)

\* every read and write on an open file succeeds
Next ==
    \/ \E c \in Counts : GenParse(c)
    \/ GenOpen
    \/ GenOpenFail
    \/ \E r \in RandSamples : GenWrite(r)
    \/ GenClose
    \/ \E a \in ArgLists : ViewParse(a)
    \/ ViewOpen
    \/ ViewOpenFail
    \/ ViewRead
    \/ ViewSummary
    \/ ViewVerify

Spec == Init /\ [][Next]_vars

\* a read or a write on an open file may also fail
NextFault ==
    \/ Next
    \/ GenWriteFault
    \/ ViewReadFault

SpecFault == Init /\ [][NextFault]_vars

----------------------------------------------------------------------------
(* Properties *)

\* the Viewer's read loop has ended by its break
ViewLoopDone == vpc \in {"summary", "verify", "done"}

NonDecreasing(l) == \A i \in 1..(Len(l) - 1) : l[i] <= l[i + 1]

IsDistinct(l) == \A i, j \in 1..Len(l) : i /= j => l[i] /= l[j]

\* C1: after a successful Generator run with --count count the file holds exactly
\* 4 * max(count, 0) bytes, whatever it held before: 4 * count bytes for
\* count >= 0 and no byte for a negative count.
C1_GeneratedSize ==
    gpc = "done" =>
        /\ Len(disk) = 4 * Max(count, 0)
        /\ count >= 0 => Len(disk) = 4 * count
        /\ count < 0 => disk = <<>>

C1_Witness == gpc = "done" /\ count = MaxCount /\ Len(disk) = 4 * MaxCount

\* C2: a file of 4*k + r bytes, r in {1, 2, 3}, is decoded to exactly k elements,
\* its r trailing bytes are not decoded, and the count reported is k.
C2_RemainderIgnored ==
    (ViewLoopDone /\ Len(disk) % 4 \in 1..3) =>
        /\ Len(lst) = Len(disk) \div 4
        /\ out /= <<>> => out[1].count = Len(disk) \div 4

\* each tape of Tapes with its bytes
EncodedPairs == {<<s, Encoded[s]>> : s \in Tapes}

\* C3: round trip. When the file holds the encoding of a sequence s of unsigned
\* integers (each element as 4 little-endian bytes, in order), the Viewer's read
\* loop ends with lst equal to s.
C3_RoundTrip ==
    ViewLoopDone => \A p \in EncodedPairs : disk = p[2] => lst = p[1]

C3_Witness ==
    /\ ViewLoopDone
    /\ disk = Encoded[<<256, MaxModelInt>>]
    /\ lst = <<256, MaxModelInt>>

\* C4: after a successful Generator run with count >= 0, the Viewer decodes exactly
\* count integers from the file, each of them in the closed range [1, 1000].
C4_GeneratedValues ==
    (gpc = "done" /\ count >= 0 /\ ViewLoopDone) =>
        /\ Len(lst) = count
        /\ \A i \in 1..Len(lst) : 1 <= lst[i] /\ lst[i] <= 1000

C4_Witness ==
    /\ gpc = "done" /\ count = MaxCount /\ vpc = "done"
    /\ Len(lst) = MaxCount /\ lst[1] = 1000

\* C5: with verification enabled the verdict printed is "sorted" exactly when the
\* decoded sequence is non-decreasing (equal neighbours allowed) and "NOT sorted"
\* otherwise; [1, 2, 3] is reported sorted and [3, 1, 2] NOT sorted.
C5_Verdict ==
    (vpc = "done" /\ verify) =>
        /\ Len(out) = 2
        /\ NonDecreasing(lst) => out[2].text = "Tape is sorted."
        /\ ~NonDecreasing(lst) => out[2].text = "Tape is NOT sorted."
        /\ disk = Encoded[<<1, 2, 3>>] => out[2].text = "Tape is sorted."
        /\ disk = Encoded[<<3, 1, 2>>] => out[2].text = "Tape is NOT sorted."

C5_Witness ==
    /\ vpc = "done" /\ verify
    /\ lst = <<3, 1, 2>>
    /\ out[2].text = "Tape is NOT sorted."

\* C6: on an empty file the Viewer decodes the empty sequence, reports 0 values,
\* reports the tape sorted when verification is enabled, and exits with status 0.
C6_EmptyFile ==
    /\ (disk = <<>> /\ ViewLoopDone) => lst = <<>>
    /\ (disk = <<>> /\ out /= <<>>) => out[1].count = 0
    /\ (disk = <<>> /\ vpc = "done") =>
        /\ vexit = 0
        /\ out[1].text = "Tape: [  ... ] (0 values)"
        /\ verify => (Len(out) = 2 /\ out[2].text = "Tape is sorted.")

C6_Witness ==
    /\ disk = <<>> /\ vpc = "done" /\ verify /\ gpc = "idle"
    /\ Len(out) = 2 /\ out[2].text = "Tape is sorted."

\* C7: for a decoded tape of n elements the summary line shows the first
\* min(10, n) elements, the last min(10, n) elements, both in file order, and the
\* count n; so for n < 10 both windows show all n elements, and for 10 <= n < 20
\* the windows share 20 - n elements.
C7_Windows ==
    out /= <<>> =>
        LET n == Len(lst)
            m == Min(10, n)
            line == out[1]
        IN  /\ line.kind = "summary"
            /\ line.first = SubSeq(lst, 1, m)
            /\ line.last = SubSeq(lst, n - m + 1, n)
            /\ line.count = n
            /\ n < 10 => (line.first = lst /\ line.last = lst)
            /\ IsDistinct(lst) =>
                Cardinality(Range(line.first) \cap Range(line.last))
                    = IF n < 10 THEN n ELSE IF n < 20 THEN 20 - n ELSE 0
            /\ disk = Encoded[<<1, 2, 3>>] =>
                line.text = "Tape: [ 1 2 3  ... 1 2 3 ] (3 values)"

C7_Witness ==
    /\ out /= <<>> /\ Len(lst) = 3
    /\ out[1].first = lst /\ out[1].last = lst /\ out[1].count = 3

\* C8: the Viewer prints the summary line first and exactly once, then the
\* sortedness line exactly once if and only if verification is enabled;
\* verification is enabled by default and disabled only by --no-verify, and then
\* the output is the summary line alone.
C8_OutputLines ==
    /\ Len(out) <= 2
    /\ out /= <<>> => out[1].kind = "summary"
    /\ Len(out) = 2 => (out[2].kind = "sorted" /\ verify)
    /\ vpc = "done" => Len(out) = (IF verify THEN 2 ELSE 1)
    /\ vpc /= "idle" =>
        /\ argv = <<>> => verify
        /\ ~verify => "--no-verify" \in Range(argv)
        /\ argv \in {<<"--no-verify">>, <<"--verify", "--no-verify">>} => ~verify

C8_Witness ==
    /\ vpc = "done" /\ argv = <<"--no-verify">>
    /\ Len(out) = 1 /\ out[1].kind = "summary"

\* C9: when the file cannot be opened the Viewer ends with a non-zero exit status
\* and has printed nothing; once the file is open (empty, or of a length that is
\* no multiple of 4, or any other) the Viewer does not fail, and it ends with
\* exit status 0.
C9_ExitStatus ==
    /\ [](vpc = "failed" => (vexit > 0 /\ out = <<>>))
    /\ [](vpc = "done" => vexit = 0)
    /\ [][(vpc \in {"read", "summary", "verify"}) => (vpc' \in {"read", "summary", "verify", "done"})]_vars

C9_Witness == vpc = "failed" /\ vOpens = 1 /\ vexit = 1 /\ out = <<>>

\* C10: each run opens at most one file, the handle is released in every terminal
\* state of the run (normal end, or a failure in the write or read loop), and the
\* Viewer has released it before it prints the summary line.
C10_HandleReleased ==
    /\ gOpens <= 1 /\ vOpens <= 1
    /\ gHeld \in 0..1 /\ vHeld \in 0..1
    /\ GenTerminated => gHeld = 0
    /\ ViewTerminated => vHeld = 0
    /\ vpc = "summary" => vHeld = 0
    /\ out /= <<>> => vHeld = 0

C10_Witness ==
    /\ vpc = "failed" /\ vOpens = 1 /\ lst /= <<>> /\ vHeld = 0
    /\ gpc = "failed" /\ gOpens = 1 /\ gi > 0 /\ gHeld = 0

====
